---------------------------- MODULE Spec2Model ----------------------------
(***************************************************************************)
(* Model of the cargo-feature-hint completion provider                     *)
(* (src/src/extension.ts, lines 1-216: the variant with FeatureInfo and    *)
(* the version-aware cache).                                               *)
(*                                                                         *)
(* A JavaScript string is modelled as a sequence of one-character strings, *)
(* so that every regular expression of the source is matched character by  *)
(* character.  Line and character positions are 0-based as in the source;  *)
(* lineAt and substring do the conversion to TLA+'s 1-based sequences.     *)
(***************************************************************************)
EXTENDS Integers, Sequences, FiniteSets, TLC

(***************************************************************************)
(* Character classes of the regular expressions.                           *)
(***************************************************************************)
Lower == {"a","b","c","d","e","f","g","h","i","j","k","l","m",
          "n","o","p","q","r","s","t","u","v","w","x","y","z"}
Upper == {"A","B","C","D","E","F","G","H","I","J","K","L","M",
          "N","O","P","Q","R","S","T","U","V","W","X","Y","Z"}
Digit == {"0","1","2","3","4","5","6","7","8","9"}

\* \s
IsSpace(c) == c \in {" ", "\t", "\r", "\n"}
\* ["']
IsQuote(c) == c \in {"\"", "'"}
\* [\w-]
IsWordDash(c) == c \in Lower \cup Upper \cup Digit \cup {"_", "-"}
\* [a-z-]
IsLowerDash(c) == c \in Lower \cup {"-"}

(***************************************************************************)
(* String primitives (methods of String), 0-based like the source.         *)
(***************************************************************************)
\* s.substring(from, to) for 0 <= from, to; clamps like JavaScript
substring(s, from, to) ==
    LET t == IF to > Len(s) THEN Len(s) ELSE to
    IN  IF from >= t THEN <<>> ELSE SubSeq(s, from + 1, t)

\* s.substring(from)
substringFrom(s, from) == substring(s, from, Len(s))

\* s.startsWith(p)
startsWith(s, p) == Len(p) <= Len(s) /\ SubSeq(s, 1, Len(p)) = p

\* the literal p occurs in s at 0-based index i
LiteralAt(s, i, p) == i + Len(p) <= Len(s) /\ SubSeq(s, i + 1, i + Len(p)) = p

\* s.includes(p)
includes(s, p) == \E i \in 0..Len(s) : LiteralAt(s, i, p)

\* the 0-based index after the longest run of characters satisfying the class,
\* starting at index i (a greedy  class*  that is never backtracked into because
\* the next pattern element is disjoint from the class)
RECURSIVE SkipSpace(_, _)
SkipSpace(s, i) == IF i < Len(s) /\ IsSpace(s[i + 1]) THEN SkipSpace(s, i + 1) ELSE i

RECURSIVE SkipWordDash(_, _)
SkipWordDash(s, i) == IF i < Len(s) /\ IsWordDash(s[i + 1]) THEN SkipWordDash(s, i + 1) ELSE i

RECURSIVE SkipLowerDash(_, _)
SkipLowerDash(s, i) == IF i < Len(s) /\ IsLowerDash(s[i + 1]) THEN SkipLowerDash(s, i + 1) ELSE i

RECURSIVE SkipNonQuote(_, _)
SkipNonQuote(s, i) == IF i < Len(s) /\ ~IsQuote(s[i + 1]) THEN SkipNonQuote(s, i + 1) ELSE i

RECURSIVE SkipNonBracket(_, _)
SkipNonBracket(s, i) == IF i < Len(s) /\ s[i + 1] # "]" THEN SkipNonBracket(s, i + 1) ELSE i

\* the character at 0-based index i is c
CharIs(s, i, c) == i < Len(s) /\ s[i + 1] = c

\* s.trim()
RECURSIVE trimEnd(_)
trimEnd(s) == IF Len(s) > 0 /\ IsSpace(s[Len(s)]) THEN trimEnd(SubSeq(s, 1, Len(s) - 1)) ELSE s

trim(s) == trimEnd(substringFrom(s, SkipSpace(s, 0)))

\* s.replace(/["']/g, "")
RECURSIVE stripQuotes(_)
stripQuotes(s) ==
    IF s = <<>> THEN <<>>
    ELSE (IF IsQuote(Head(s)) THEN <<>> ELSE <<Head(s)>>) \o stripQuotes(Tail(s))

\* s.split(sep) for a one-character separator
RECURSIVE SkipUntil(_, _, _)
SkipUntil(s, i, sep) == IF i < Len(s) /\ s[i + 1] # sep THEN SkipUntil(s, i + 1, sep) ELSE i

RECURSIVE split(_, _)
split(s, sep) ==
    LET k == SkipUntil(s, 0, sep)
    IN  IF k < Len(s)
        THEN <<SubSeq(s, 1, k)>> \o split(SubSeq(s, k + 2, Len(s)), sep)
        ELSE <<s>>

\* the absent value of an optional field (undefined)
undefined == <<"undefined">>

(***************************************************************************)
(* Literals of the source.                                                 *)
(***************************************************************************)
features_lit == <<"f","e","a","t","u","r","e","s">>
path_lit == <<"p","a","t","h">>
version_lit == <<"v","e","r","s","i","o","n">>
dependencies_lit == <<"d","e","p","e","n","d","e","n","c","i","e","s">>
features_header == <<"[","f","e","a","t","u","r","e","s","]">>
latest_lit == <<"l","a","t","e","s","t">>
manifest_name == <<"C","a","r","g","o",".","t","o","m","l">>

(***************************************************************************)
(* provideCompletionItems, line 24: the Trigger Gate                       *)
(***************************************************************************)
\* the gate is  /features\s*=\s*\[[^\]]*["']([^"']*)$/  on the line prefix
\* features\s*=\s*\[  matched at index i: the index just after "[", or -1
FeaturesKeyAt(s, i) ==
    IF ~LiteralAt(s, i, features_lit) THEN -1
    ELSE LET a == SkipSpace(s, i + Len(features_lit))
         IN  IF ~CharIs(s, a, "=") THEN -1
             ELSE LET b == SkipSpace(s, a + 1)
                  IN  IF CharIs(s, b, "[") THEN b + 1 ELSE -1

\* [^\]]*["']([^"']*)$  matched from index b: some quote at q has no "]" between
\* b and q and no quote after it up to the end of the string
GateTailRich(s, b) ==
    LET stop == SkipNonBracket(s, b)
    IN  \E q \in b..(Len(s) - 1) :
            /\ IsQuote(s[q + 1])
            /\ stop >= q
            /\ SkipNonQuote(s, q + 1) = Len(s)

\* a gate that lets every request through
TriggerGateOpen(linePrefix) == TRUE

\* line 24: the regex matches somewhere in the prefix
TriggerGate(linePrefix) ==
    \E i \in 0..Len(linePrefix) :
        LET b == FeaturesKeyAt(linePrefix, i)
        IN  b >= 0 /\ GateTailRich(linePrefix, b)

(***************************************************************************)
(* getExistingFeatures, lines 62-69                                        *)
(***************************************************************************)
\* /features\s*=\s*\[([^\]]*)\]/ matches at index i
ListClosedAt(s, i) ==
    /\ FeaturesKeyAt(s, i) >= 0
    /\ SkipNonBracket(s, FeaturesKeyAt(s, i)) < Len(s)

\* content.match(/["']([^"']+)["']/g) with the quotes removed from each match:
\* matches are taken left to right and do not overlap
RECURSIVE QuotedFrom(_, _)
QuotedFrom(content, i) ==
    IF i >= Len(content) THEN {}
    ELSE IF ~IsQuote(content[i + 1]) THEN QuotedFrom(content, i + 1)
    ELSE LET e == SkipNonQuote(content, i + 1)
         IN  IF e > i + 1 /\ e < Len(content)
             THEN {substring(content, i + 1, e)} \cup QuotedFrom(content, e + 1)
             ELSE QuotedFrom(content, i + 1)

\* the index of the leftmost match of the regular expression from i on, or -1
RECURSIVE FirstClosedList(_, _)
FirstClosedList(s, i) ==
    IF i > Len(s) THEN -1
    ELSE IF ListClosedAt(s, i) THEN i ELSE FirstClosedList(s, i + 1)

\* an extractor that reads an unclosed list up to the end of the line
getExistingFeaturesUnclosed(lineText) ==
    LET keys == {i \in 0..Len(lineText) : FeaturesKeyAt(lineText, i) >= 0}
        b == FeaturesKeyAt(lineText, CHOOSE i \in keys : \A k \in keys : i <= k)
    IN  IF keys = {} THEN {}
        ELSE QuotedFrom(substring(lineText, b, SkipNonBracket(lineText, b)), 0)

\* lines 62-69
getExistingFeatures(lineText) ==
    LET i == FirstClosedList(lineText, 0)
        b == FeaturesKeyAt(lineText, i)
        content == substring(lineText, b, SkipNonBracket(lineText, b))
    IN  IF i < 0 THEN {} ELSE QuotedFrom(content, 0)

(***************************************************************************)
(* path.dirname, path.resolve, path.join (POSIX flavour of Node's path)    *)
(***************************************************************************)
\* drop "" and ".", let ".." remove the segment before it (never above the root)
RECURSIVE NormalizeSegments(_, _)
NormalizeSegments(stack, segs) ==
    IF segs = <<>> THEN stack
    ELSE LET h == Head(segs)
         IN  IF h = <<>> \/ h = <<".">> THEN NormalizeSegments(stack, Tail(segs))
             ELSE IF h = <<".", ".">>
             THEN NormalizeSegments(IF stack = <<>> THEN <<>>
                                    ELSE SubSeq(stack, 1, Len(stack) - 1), Tail(segs))
             ELSE NormalizeSegments(Append(stack, h), Tail(segs))

RECURSIVE JoinSegments(_)
JoinSegments(segs) ==
    IF segs = <<>> THEN <<>> ELSE <<"/">> \o Head(segs) \o JoinSegments(Tail(segs))

AbsolutePath(segs) == IF segs = <<>> THEN <<"/">> ELSE JoinSegments(segs)

\* path.resolve(from, to), from being absolute
path_resolve(from, to) ==
    IF CharIs(to, 0, "/")
    THEN AbsolutePath(NormalizeSegments(<<>>, split(to, "/")))
    ELSE AbsolutePath(NormalizeSegments(<<>>, split(from, "/") \o split(to, "/")))

\* path.join(dir, name)
path_join(dir, name) == AbsolutePath(NormalizeSegments(<<>>, split(dir, "/") \o split(name, "/")))

\* path.dirname(p) of an absolute file path
path_dirname(p) ==
    LET segs == split(p, "/")
    IN  AbsolutePath(NormalizeSegments(<<>>, SubSeq(segs, 1, Len(segs) - 1)))

(***************************************************************************)
(* getCrateInfo, lines 71-118                                              *)
(***************************************************************************)
\* document.lineAt(i).text and document.lineCount
lineAt(document, i) == document[i + 1]
lineCount(document) == Len(document)

\* key\s*=\s*["']([^"']+)["']  matched at index i: the captured value, or undefined
KeyValueAt(s, i, key) ==
    IF ~LiteralAt(s, i, key) THEN undefined
    ELSE LET a == SkipSpace(s, i + Len(key))
         IN  IF ~CharIs(s, a, "=") THEN undefined
             ELSE LET b == SkipSpace(s, a + 1)
                      e == SkipNonQuote(s, b + 1)
                  IN  IF b < Len(s) /\ IsQuote(s[b + 1]) /\ e > b + 1 /\ e < Len(s)
                      THEN substring(s, b + 1, e)
                      ELSE undefined

\* s.match(/key\s*=\s*["']([^"']+)["']/): the leftmost match anywhere in s
RECURSIVE KeyValueFrom(_, _, _)
KeyValueFrom(s, i, key) ==
    IF i > Len(s) THEN undefined
    ELSE IF KeyValueAt(s, i, key) # undefined THEN KeyValueAt(s, i, key)
    ELSE KeyValueFrom(s, i + 1, key)

KeyValueSearch(s, key) == KeyValueFrom(s, 0, key)

\* currentLine.match(/^\s*([\w-]+)\s*=\s*\{/): the captured name, or undefined
inlineMatch(currentLine) ==
    LET i0 == SkipSpace(currentLine, 0)
        i1 == SkipWordDash(currentLine, i0)
        i2 == SkipSpace(currentLine, i1)
        i3 == SkipSpace(currentLine, i2 + 1)
    IN  IF i1 > i0 /\ CharIs(currentLine, i2, "=") /\ CharIs(currentLine, i3, "{")
        THEN substring(currentLine, i0, i1)
        ELSE undefined

\* line.match(/^\[(?:[a-z-]+\.)([\w-]+)\]/): the captured name, or undefined
tableMatch(line) ==
    LET a == SkipLowerDash(line, 1)
        b == SkipWordDash(line, a + 1)
    IN  IF /\ CharIs(line, 0, "[") /\ a > 1 /\ CharIs(line, a, ".")
           /\ b > a + 1 /\ CharIs(line, b, "]")
        THEN substring(line, a + 1, b)
        ELSE undefined

NoCrateInfo == [crateName |-> undefined, path |-> undefined, version |-> undefined]

max_search_lines == 15

\* a forward loop that reads on through the headers below
RECURSIVE ForwardScanThroughHeaders(_, _, _, _, _, _)
ForwardScanThroughHeaders(document, documentDir, i, j, foundPath, foundVersion) ==
    IF ~(j < i + max_search_lines /\ j < lineCount(document))
    THEN [path |-> foundPath, version |-> foundVersion]
    ELSE LET nextLine == trim(lineAt(document, j))
             pathMatch == KeyValueAt(nextLine, 0, path_lit)
             versionMatch == KeyValueAt(nextLine, 0, version_lit)
         IN  ForwardScanThroughHeaders(document, documentDir, i, j + 1,
                 IF pathMatch # undefined
                 THEN path_resolve(documentDir, pathMatch) ELSE foundPath,
                 IF versionMatch # undefined THEN versionMatch ELSE foundVersion)

\* a forward loop that keeps the first path and the first version it finds
RECURSIVE ForwardScanFirstWins(_, _, _, _, _, _)
ForwardScanFirstWins(document, documentDir, i, j, foundPath, foundVersion) ==
    IF ~(j < i + max_search_lines /\ j < lineCount(document))
    THEN [path |-> foundPath, version |-> foundVersion]
    ELSE LET nextLine == trim(lineAt(document, j))
             pathMatch == KeyValueAt(nextLine, 0, path_lit)
             versionMatch == KeyValueAt(nextLine, 0, version_lit)
         IN  IF startsWith(nextLine, <<"[">>)
             THEN [path |-> foundPath, version |-> foundVersion]
             ELSE ForwardScanFirstWins(document, documentDir, i, j + 1,
                      IF pathMatch # undefined /\ foundPath = undefined
                      THEN path_resolve(documentDir, pathMatch) ELSE foundPath,
                      IF versionMatch # undefined /\ foundVersion = undefined
                      THEN versionMatch ELSE foundVersion)

\* the forward loop of lines 102-111, from line j, for the header at line i
RECURSIVE ForwardScan(_, _, _, _, _, _)
ForwardScan(document, documentDir, i, j, foundPath, foundVersion) ==
    IF ~(j < i + max_search_lines /\ j < lineCount(document))
    THEN [path |-> foundPath, version |-> foundVersion]
    ELSE LET nextLine == trim(lineAt(document, j))
             pathMatch == KeyValueAt(nextLine, 0, path_lit)
             versionMatch == KeyValueAt(nextLine, 0, version_lit)
         IN  IF startsWith(nextLine, <<"[">>)
             THEN [path |-> foundPath, version |-> foundVersion]
             ELSE ForwardScan(document, documentDir, i, j + 1,
                              IF pathMatch # undefined
                              THEN path_resolve(documentDir, pathMatch) ELSE foundPath,
                              IF versionMatch # undefined THEN versionMatch ELSE foundVersion)

\* the upward loop of lines 93-115, from line i
RECURSIVE UpwardScan(_, _, _)
UpwardScan(document, documentDir, i) ==
    IF i < 0 THEN NoCrateInfo
    ELSE LET line == trim(lineAt(document, i))
         IN  IF tableMatch(line) # undefined
             THEN LET found == ForwardScan(document, documentDir, i, i + 1,
                                           undefined, undefined)
                  IN  [crateName |-> tableMatch(line), path |-> found.path,
                       version |-> found.version]
             ELSE IF startsWith(line, <<"[">>) /\ ~includes(line, dependencies_lit)
             THEN NoCrateInfo
             ELSE UpwardScan(document, documentDir, i - 1)

\* lines 79-90: the inline form
InlineCrateInfo(currentLine, documentDir) ==
    LET pathMatch == KeyValueSearch(currentLine, path_lit)
        versionMatch == KeyValueSearch(currentLine, version_lit)
    IN  [crateName |-> inlineMatch(currentLine),
         path |-> IF pathMatch # undefined
                  THEN path_resolve(documentDir, pathMatch) ELSE undefined,
         version |-> versionMatch]

\* a resolver that completes an inline declaration from the table above it
getCrateInfoWithFallback(document, fsPath, position) ==
    LET currentLine == lineAt(document, position.line)
        documentDir == path_dirname(fsPath)
        inline == InlineCrateInfo(currentLine, documentDir)
        above == UpwardScan(document, documentDir, position.line - 1)
    IN  IF inlineMatch(currentLine) # undefined
        THEN [crateName |-> inline.crateName,
              path |-> IF inline.path # undefined THEN inline.path ELSE above.path,
              version |-> IF inline.version # undefined THEN inline.version
                          ELSE above.version]
        ELSE above

getCrateInfo(document, fsPath, position) ==
    LET currentLine == lineAt(document, position.line)
        documentDir == path_dirname(fsPath)
    IN  IF inlineMatch(currentLine) # undefined
        THEN InlineCrateInfo(currentLine, documentDir)
        ELSE UpwardScan(document, documentDir, position.line - 1)

(***************************************************************************)
(* fetchLocalCrateFeatures, lines 120-162                                  *)
(***************************************************************************)
\* content.split(/\r?\n/)
RECURSIVE dropCR(_)
dropCR(pieces) ==
    IF Len(pieces) <= 1 THEN pieces
    ELSE LET h == Head(pieces)
         IN  <<IF Len(h) > 0 /\ h[Len(h)] = "\r" THEN SubSeq(h, 1, Len(h) - 1) ELSE h>>
             \o dropCR(Tail(pieces))

splitLines(content) == dropCR(split(content, "\n"))

\* trimmed.match(/^([\w-]+)\s*=/): the captured name, or undefined
simpleMatch(trimmed) ==
    LET i1 == SkipWordDash(trimmed, 0)
        i2 == SkipSpace(trimmed, i1)
    IN  IF i1 > 0 /\ CharIs(trimmed, i2, "=") THEN substring(trimmed, 0, i1) ELSE undefined

\* the second group of trimmed.match(/^([\w-]+)\s*=\s*\[(.*?)\]/), or undefined
listMatch(trimmed) ==
    LET i1 == SkipWordDash(trimmed, 0)
        i2 == SkipSpace(trimmed, i1)
        i3 == SkipSpace(trimmed, i2 + 1)
        e == SkipNonBracket(trimmed, i3 + 1)
    IN  IF /\ i1 > 0 /\ CharIs(trimmed, i2, "=") /\ CharIs(trimmed, i3, "[")
           /\ e < Len(trimmed)
        THEN substring(trimmed, i3 + 1, e)
        ELSE undefined

\* lines 145-149: the names a feature enables
RECURSIVE activatesOf(_)
activatesOf(pieces) ==
    IF pieces = <<>> THEN <<>>
    ELSE LET activate == stripQuotes(trim(Head(pieces)))
         IN  (IF activate # <<>> THEN <<activate>> ELSE <<>>) \o activatesOf(Tail(pieces))

\* lines 140-155: the FeatureInfo entries one line of the [features] section adds
LocalFeatureOfLine(trimmed) ==
    LET match == listMatch(trimmed)
        name == simpleMatch(trimmed)
    IN  IF match # undefined
        THEN <<[name |-> name, enable |-> activatesOf(split(match, ","))]>>
        ELSE IF name # undefined THEN <<[name |-> name, enable |-> <<>>]>>
        ELSE <<>>

\* a loop that stays in the features section once it is in
RECURSIVE LocalScanToEnd(_, _)
LocalScanToEnd(lines, inFeaturesSection) ==
    IF lines = <<>> THEN <<>>
    ELSE LET trimmed == trim(Head(lines))
         IN  IF trimmed = features_header THEN LocalScanToEnd(Tail(lines), TRUE)
             ELSE IF inFeaturesSection /\ startsWith(trimmed, <<"[">>)
             THEN LocalScanToEnd(Tail(lines), TRUE)
             ELSE IF inFeaturesSection
             THEN LocalFeatureOfLine(trimmed) \o LocalScanToEnd(Tail(lines), TRUE)
             ELSE LocalScanToEnd(Tail(lines), FALSE)

\* the loop of lines 129-157
RECURSIVE LocalScan(_, _)
LocalScan(lines, inFeaturesSection) ==
    IF lines = <<>> THEN <<>>
    ELSE LET trimmed == trim(Head(lines))
         IN  IF trimmed = features_header THEN LocalScan(Tail(lines), TRUE)
             ELSE IF inFeaturesSection /\ startsWith(trimmed, <<"[">>)
             THEN LocalScan(Tail(lines), FALSE)
             ELSE IF inFeaturesSection
             THEN LocalFeatureOfLine(trimmed) \o LocalScan(Tail(lines), TRUE)
             ELSE LocalScan(Tail(lines), FALSE)

\* files: the file system, a function from the paths that exist to
\* [readable, content]; reading an unreadable one throws, which line 159 catches
fetchLocalCrateFeatures(files, cratePath) ==
    LET tomlPath == path_join(cratePath, manifest_name)
    IN  IF tomlPath \notin DOMAIN files THEN <<>>
        ELSE IF ~files[tomlPath].readable THEN <<>>
        ELSE LocalScan(splitLines(files[tomlPath].content), FALSE)

(***************************************************************************)
(* fetchCrateFeatures, lines 168-216: the pure parts                       *)
(***************************************************************************)
\* version.replace(/[\^~=]/g, "")
RECURSIVE stripOperators(_)
stripOperators(s) ==
    IF s = <<>> THEN <<>>
    ELSE (IF Head(s) \in {"^", "~", "="} THEN <<>> ELSE <<Head(s)>>)
         \o stripOperators(Tail(s))

\* line 190
versionNum(version) == trim(stripOperators(version))

\* a key built from the constraint without its operators
crateNameVersonStripped(crateName, version) ==
    IF version # undefined /\ version # <<>>
    THEN crateName \o <<"@">> \o versionNum(version)
    ELSE crateName \o <<"@">> \o latest_lit

\* line 169
crateNameVerson(crateName, version) ==
    IF version # undefined /\ version # <<>>
    THEN crateName \o <<"@">> \o version
    ELSE crateName \o <<"@">> \o latest_lit

\* versions.find(v => v.num === n): the index of the first such version, or 0
FindExact(versions, n) ==
    IF \E k \in 1..Len(versions) : versions[k].num = n
    THEN CHOOSE k \in 1..Len(versions) :
             versions[k].num = n /\ \A m \in 1..(k - 1) : versions[m].num # n
    ELSE 0

\* versions.find(v => v.num.startsWith(n)): the index of the first one, or 0
FindPrefix(versions, n) ==
    IF \E k \in 1..Len(versions) : startsWith(versions[k].num, n)
    THEN CHOOSE k \in 1..Len(versions) :
             /\ startsWith(versions[k].num, n)
             /\ \A m \in 1..(k - 1) : ~startsWith(versions[m].num, n)
    ELSE 0

\* a selection that takes the first prefix match before an exact one
targetVersionPrefixFirst(versions, version) ==
    IF version = undefined \/ version = <<>> THEN versions[1]
    ELSE IF FindPrefix(versions, versionNum(version)) # 0
    THEN versions[FindPrefix(versions, versionNum(version))]
    ELSE versions[1]

\* lines 188-201, for a non-empty version list
targetVersion(versions, version) ==
    IF version = undefined \/ version = <<>> THEN versions[1]
    ELSE IF FindExact(versions, versionNum(version)) # 0
    THEN versions[FindExact(versions, versionNum(version))]
    ELSE IF FindPrefix(versions, versionNum(version)) # 0
    THEN versions[FindPrefix(versions, versionNum(version))]
    ELSE versions[1]

\* a.localeCompare(b) < 0 on names over [a-z0-9_-]: punctuation sorts before
\* digits and digits before letters
CharRank(c) ==
    IF c = "_" THEN 0 ELSE IF c = "-" THEN 1
    ELSE IF c \in Digit THEN 2 + (CHOOSE d \in 0..9 : <<"0","1","2","3","4","5","6","7","8","9">>[d + 1] = c)
    ELSE 12 + (CHOOSE d \in 0..25 :
                 <<"a","b","c","d","e","f","g","h","i","j","k","l","m",
                   "n","o","p","q","r","s","t","u","v","w","x","y","z">>[d + 1] = c)

RECURSIVE nameBefore(_, _)
nameBefore(a, b) ==
    IF b = <<>> THEN FALSE
    ELSE IF a = <<>> THEN TRUE
    ELSE IF Head(a) = Head(b) THEN nameBefore(Tail(a), Tail(b))
    ELSE CharRank(Head(a)) < CharRank(Head(b))

\* Object.entries(...).sort(([a], [b]) => a.localeCompare(b)): insertion sort,
\* the keys of an object being distinct
RECURSIVE insertEntry(_, _)
insertEntry(sorted, e) ==
    IF sorted = <<>> THEN <<e>>
    ELSE IF nameBefore(e.name, Head(sorted).name) THEN <<e>> \o sorted
    ELSE <<Head(sorted)>> \o insertEntry(Tail(sorted), e)

RECURSIVE sortEntries(_)
sortEntries(entries) ==
    IF entries = <<>> THEN <<>>
    ELSE insertEntry(sortEntries(SubSeq(entries, 1, Len(entries) - 1)), entries[Len(entries)])

\* lines 203-209: the loop that drops the names starting with "_"
RECURSIVE filterPrivate(_)
filterPrivate(entries) ==
    IF entries = <<>> THEN <<>>
    ELSE (IF startsWith(Head(entries).name, <<"_">>) THEN <<>> ELSE <<Head(entries)>>)
         \o filterPrivate(Tail(entries))

\* lines 186-211 on a parsed response with a non-empty version list
featuresOfVersions(versions, version) ==
    filterPrivate(sortEntries(targetVersion(versions, version).features))

(***************************************************************************)
(* provideCompletionItems, lines 38-39                                     *)
(***************************************************************************)
\* features.filter(feature => !existingFeatures.has(feature.name))
RECURSIVE filterExisting(_, _)
filterExisting(features, existingFeatures) ==
    IF features = <<>> THEN <<>>
    ELSE (IF Head(features).name \in existingFeatures THEN <<>> ELSE <<Head(features)>>)
         \o filterExisting(Tail(features), existingFeatures)

(***************************************************************************)
(* State.                                                                  *)
(*   document, fsPath, position  the editor: the text of the open          *)
(*                  Cargo.toml, its file path, the cursor                  *)
(*   files          the file system the local manifests are read from      *)
(*   registry       the JSON document crates.io answers with, by crate     *)
(*   featuresCache  the Map of line 12                                     *)
(*   tasks          the invocations of provideCompletionItems: the locals  *)
(*                  of each and where it stands (idle, awaiting the        *)
(*                  response of line 175, done)                            *)
(* A task counts the requests it has issued at line 175 in its field       *)
(* calls and its reads of a manifest in reads, and records what it did     *)
(* with the cache in cacheOp and how its request ended in outcome.         *)
(***************************************************************************)
VARIABLES document, fsPath, position, files, registry, featuresCache, tasks

vars == <<document, fsPath, position, files, registry, featuresCache, tasks>>

editor == <<document, fsPath, position>>

\* the ways the request of lines 175-184 can end: a JSON document with the
\* registry's version list ("ok"), a rejected fetch ("timeout", "network"), a
\* response that is not ok ("status"), a body that is no JSON ("badjson"), the
\* JSON value null ("null"), an object without versions ("noversions"), an empty
\* version list ("emptyversions")
Outcomes == {"ok", "timeout", "network", "status", "badjson", "null", "noversions",
             "emptyversions"}

IdleTask ==
    [pc |-> "idle", document |-> <<>>, lineText |-> <<>>, linePrefix |-> <<>>, crateInfo |-> NoCrateInfo, key |-> undefined,
     version |-> undefined, features |-> <<>>, returned |-> "pending", result |-> <<>>,
     calls |-> 0, reads |-> 0, cacheOp |-> "none", outcome |-> "none", raised |-> FALSE,
     targetNum |-> undefined]

\* a cache that forgets what it is given
CacheKeep(cache, k, v) == cache

\* a cache that holds the last key alone
CacheOnly(cache, k, v) == [x \in {k} |-> v]

\* featuresCache.set(k, v)
CacheSet(cache, k, v) == [x \in DOMAIN cache \cup {k} |-> IF x = k THEN v ELSE cache[x]]

\* filteredFeatures.map(...): the labels of the completion items
RECURSIVE labels(_)
labels(features) ==
    IF features = <<>> THEN <<>> ELSE <<Head(features).name>> \o labels(Tail(features))

\* lines 38-54
suggestions(features, lineText) == labels(filterExisting(features, getExistingFeatures(lineText)))

\* a dispatch that goes to the registry whenever a version is given
useLocalUnlessVersion(crateInfo) == crateInfo.path # undefined /\ crateInfo.version = undefined

\* line 32: if (crateInfo.path)
useLocal(crateInfo) == crateInfo.path # undefined /\ crateInfo.path # <<>>

\* lines 18-36 up to the first suspension: task r is invoked on the editor's
\* document and cursor
provideCompletionItems(r) ==
    /\ tasks[r].pc \in {"idle", "done"}
    /\ LET lineText == lineAt(document, position.line)
           linePrefix == substring(lineText, 0, position.character)
           crateInfo == getCrateInfo(document, fsPath, position)
           key == crateNameVerson(crateInfo.crateName, crateInfo.version)
           begun == [IdleTask EXCEPT !.document = document, !.lineText = lineText,
                                     !.linePrefix = linePrefix]
       IN  IF ~TriggerGate(linePrefix)
           THEN /\ tasks' = [tasks EXCEPT ![r] =
                                [begun EXCEPT !.pc = "done", !.returned = "undefined"]]
                /\ UNCHANGED featuresCache
           ELSE IF crateInfo.crateName = undefined
           THEN /\ tasks' = [tasks EXCEPT ![r] =
                                [begun EXCEPT !.pc = "done", !.returned = "undefined"]]
                /\ UNCHANGED featuresCache
           ELSE IF useLocal(crateInfo)
           THEN /\ LET features == fetchLocalCrateFeatures(files, crateInfo.path)
                   IN  tasks' = [tasks EXCEPT ![r] =
                           [begun EXCEPT !.pc = "done", !.crateInfo = crateInfo,
                               !.reads = 1, !.features = features, !.returned = "items",
                               !.result = suggestions(features, lineText)]]
                /\ UNCHANGED featuresCache
           ELSE IF key \in DOMAIN featuresCache
           THEN /\ tasks' = [tasks EXCEPT ![r] =
                    [begun EXCEPT !.pc = "done", !.crateInfo = crateInfo, !.key = key,
                        !.version = crateInfo.version, !.cacheOp = "hit",
                        !.features = featuresCache[key], !.returned = "items",
                        !.result = suggestions(featuresCache[key], lineText)]]
                /\ UNCHANGED featuresCache
           ELSE /\ tasks' = [tasks EXCEPT ![r] =
                    [begun EXCEPT !.pc = "awaiting", !.crateInfo = crateInfo, !.key = key,
                        !.version = crateInfo.version, !.cacheOp = "miss", !.calls = 1]]
                /\ UNCHANGED featuresCache
    /\ UNCHANGED <<editor, files, registry>>

\* a body that stores the empty list of a response without versions
tryBodyStoresEmpty(outcome, data, version) ==
    IF outcome \in {"timeout", "network", "status", "badjson", "null"}
    THEN [thrown |-> TRUE, value |-> <<>>, store |-> FALSE, targetNum |-> undefined]
    ELSE IF outcome \in {"noversions", "emptyversions"} \/ data.versions = <<>>
    THEN [thrown |-> FALSE, value |-> <<>>, store |-> TRUE, targetNum |-> undefined]
    ELSE [thrown |-> FALSE, value |-> featuresOfVersions(data.versions, version),
          store |-> TRUE, targetNum |-> targetVersion(data.versions, version).num]

\* lines 180-211 inside the try: what the body does with the response
tryBody(outcome, data, version) ==
    IF outcome \in {"timeout", "network", "status", "badjson", "null"}
    THEN [thrown |-> TRUE, value |-> <<>>, store |-> FALSE, targetNum |-> undefined]
    ELSE IF outcome \in {"noversions", "emptyversions"} \/ data.versions = <<>>
    THEN [thrown |-> FALSE, value |-> <<>>, store |-> FALSE, targetNum |-> undefined]
    ELSE [thrown |-> FALSE, value |-> featuresOfVersions(data.versions, version),
          store |-> TRUE, targetNum |-> targetVersion(data.versions, version).num]

\* a body whose exceptions reach the caller
fetchReturnNoCatch(outcome, data, version) ==
    LET b == tryBody(outcome, data, version)
    IN  [raised |-> b.thrown, value |-> b.value, store |-> b.store, targetNum |-> b.targetNum]

\* lines 174-215: the catch of line 212 turns every exception into return []
fetchReturn(outcome, data, version) ==
    LET b == tryBody(outcome, data, version)
    IN  [raised |-> FALSE, value |-> IF b.thrown THEN <<>> ELSE b.value,
         store |-> ~b.thrown /\ b.store, targetNum |-> b.targetNum]

\* a response that is delivered only while no other request awaits one
RespondWhenAlone(r, outcome) ==
    /\ tasks[r].pc = "awaiting"
    /\ \A q \in DOMAIN tasks \ {r} : tasks[q].pc # "awaiting"
    /\ outcome = "ok" => tasks[r].crateInfo.crateName \in DOMAIN registry
    /\ LET t == tasks[r]
           data == IF t.crateInfo.crateName \in DOMAIN registry
                   THEN registry[t.crateInfo.crateName] ELSE [versions |-> <<>>]
           ret == fetchReturn(outcome, data, t.version)
       IN  /\ tasks' = [tasks EXCEPT ![r] =
                  [t EXCEPT !.pc = "done", !.outcome = outcome, !.raised = ret.raised,
                      !.features = ret.value, !.targetNum = ret.targetNum,
                      !.cacheOp = IF ret.store THEN "stored" ELSE "miss",
                      !.returned = IF ret.raised THEN "pending" ELSE "items",
                      !.result = IF ret.raised THEN <<>>
                                 ELSE suggestions(ret.value, t.lineText)]]
           /\ featuresCache' = IF ret.store THEN CacheSet(featuresCache, t.key, ret.value)
                               ELSE featuresCache
    /\ UNCHANGED <<editor, files, registry>>

\* lines 175-216 and 38-54 after the suspension: the request of task r ends
\* with the given outcome and the task runs to its end
Respond(r, outcome) ==
    /\ tasks[r].pc = "awaiting"
    /\ outcome = "ok" => tasks[r].crateInfo.crateName \in DOMAIN registry
    /\ LET t == tasks[r]
           data == IF t.crateInfo.crateName \in DOMAIN registry
                   THEN registry[t.crateInfo.crateName] ELSE [versions |-> <<>>]
           ret == fetchReturn(outcome, data, t.version)
       IN  /\ tasks' = [tasks EXCEPT ![r] =
                  [t EXCEPT !.pc = "done", !.outcome = outcome, !.raised = ret.raised,
                      !.features = ret.value, !.targetNum = ret.targetNum,
                      !.cacheOp = IF ret.store THEN "stored" ELSE "miss",
                      !.returned = IF ret.raised THEN "pending" ELSE "items",
                      !.result = IF ret.raised THEN <<>>
                                 ELSE suggestions(ret.value, t.lineText)]]
           /\ featuresCache' = IF ret.store THEN CacheSet(featuresCache, t.key, ret.value)
                               ELSE featuresCache
    /\ UNCHANGED <<editor, files, registry>>

(***************************************************************************)
(* The inputs: lines of manifests, file paths, registry documents.  Each   *)
(* line is the text given in the comment above it.                         *)
(***************************************************************************)
\* [dependencies.serde]
hdr_dep_serde ==
    <<"[","d","e","p","e","n","d","e","n","c","i","e","s",".","s","e","r","d","e","]">>
\* [dependencies.bar]
hdr_dep_bar ==
    <<"[","d","e","p","e","n","d","e","n","c","i","e","s",".","b","a","r","]">>
\* [package]
hdr_package ==
    <<"[","p","a","c","k","a","g","e","]">>
\* [dependencies]
hdr_dependencies ==
    <<"[","d","e","p","e","n","d","e","n","c","i","e","s","]">>
\* [features]
hdr_features ==
    <<"[","f","e","a","t","u","r","e","s","]">>
\* path = "../serde"
ln_path_serde ==
    <<"p","a","t","h"," ","="," ","\"",".",".","/","s","e","r","d","e","\"">>
\* path = "../bar"
ln_path_bar ==
    <<"p","a","t","h"," ","="," ","\"",".",".","/","b","a","r","\"">>
\* path = "../other"
ln_path_other ==
    <<"p","a","t","h"," ","="," ","\"",".",".","/","o","t","h","e","r","\"">>
\* version = "2.0"
ln_version_20 ==
    <<"v","e","r","s","i","o","n"," ","="," ","\"","2",".","0","\"">>
\* version = "9.9"
ln_version_99 ==
    <<"v","e","r","s","i","o","n"," ","="," ","\"","9",".","9","\"">>
\* optional = true
ln_optional ==
    <<"o","p","t","i","o","n","a","l"," ","="," ","t","r","u","e">>
\* features = ["
ln_features_open ==
    <<"f","e","a","t","u","r","e","s"," ","="," ","[","\"">>
\* /w/app/Cargo.toml
fs_app ==
    <<"/","w","/","a","p","p","/","C","a","r","g","o",".","t","o","m","l">>
\* /w/Cargo.toml
fs_top ==
    <<"/","w","/","C","a","r","g","o",".","t","o","m","l">>
\* /w/serde/Cargo.toml
fs_serde ==
    <<"/","w","/","s","e","r","d","e","/","C","a","r","g","o",".","t","o","m","l">>
\* /w/util/Cargo.toml
fs_util ==
    <<"/","w","/","u","t","i","l","/","C","a","r","g","o",".","t","o","m","l">>
\* std
n_std ==
    <<"s","t","d">>
\* alloc
n_alloc ==
    <<"a","l","l","o","c">>
\* full
n_full ==
    <<"f","u","l","l">>
\* _internal
n_internal ==
    <<"_","i","n","t","e","r","n","a","l">>
\* rc
n_rc ==
    <<"r","c">>
\* serde
n_serde ==
    <<"s","e","r","d","e">>
\* bar
n_bar ==
    <<"b","a","r">>

Feature(name, enable) == [name |-> name, enable |-> enable]

\* a manifest's text from its lines
RECURSIVE joinLines(_)
joinLines(lines) ==
    IF lines = <<>> THEN <<>>
    ELSE IF Len(lines) = 1 THEN Head(lines)
    ELSE Head(lines) \o <<"\n">> \o joinLines(Tail(lines))

File(lines) == [readable |-> TRUE, content |-> joinLines(lines)]
Unreadable == [readable |-> FALSE, content |-> <<>>]
\* name = "x"
mf_name ==
    <<"n","a","m","e"," ","="," ","\"","x","\"">>
\* std = []
mf_std ==
    <<"s","t","d"," ","="," ","[","]">>
\* alloc = ["std"]
mf_alloc ==
    <<"a","l","l","o","c"," ","="," ","[","\"","s","t","d","\"","]">>
\* full = ["std", "alloc"]
mf_full ==
    <<"f","u","l","l"," ","="," ","[","\"","s","t","d","\"",","," ","\"","a","l","l","o","c","\"","]">>
\* _internal = []
mf_internal ==
    <<"_","i","n","t","e","r","n","a","l"," ","="," ","[","]">>
\* rc = ["std"]
mf_rc ==
    <<"r","c"," ","="," ","[","\"","s","t","d","\"","]">>

\* a manifest declaring std, alloc and full
ManifestPublic == File(<<hdr_package, mf_name, hdr_features, mf_std, mf_alloc, mf_full>>)
\* the same with a feature named _internal
ManifestPrivate == File(<<hdr_package, mf_name, hdr_features, mf_std, mf_internal, mf_alloc>>)
\* a later edit of it
ManifestEdited == File(<<hdr_features, mf_std, mf_rc, hdr_dependencies, mf_name>>)

NoFiles == [p \in {} |-> Unreadable]
NoRegistry == [c \in {} |-> [versions |-> <<>>]]
NoCache == [k \in {} |-> <<>>]

\* the state before any completion request, for the given editor, file system
\* and registry
InitWith(doc, file, pos, fs, reg, taskIds) ==
    /\ document = doc
    /\ fsPath = file
    /\ position = pos
    /\ files = fs
    /\ registry = reg
    /\ featuresCache = NoCache
    /\ tasks = [r \in taskIds |-> IdleTask]

(***************************************************************************)
(* SpecGate: one completion request on a line under [dependencies.serde]   *)
(* with a local path, the line being any text typed from a few fragments,  *)
(* the cursor at the end of it or before an auto-closed tail.              *)
(***************************************************************************)
\* how many fragments a typed line holds at most
MaxFragments == 4

\* features = [
fr_key ==
    <<"f","e","a","t","u","r","e","s"," ","="," ","[">>
\* "
fr_quote ==
    <<"\"">>
\* "std"
fr_std ==
    <<"\"","s","t","d","\"">>
\* , "
fr_next ==
    <<","," ","\"">>
\* al
fr_al ==
    <<"a","l">>
\* ]
fr_close ==
    <<"]">>
\* "]
fr_autoclose ==
    <<"\"","]">>

Fragments == {fr_key, fr_quote, fr_std, fr_next, fr_al, fr_close}

RECURSIVE TypedLines(_)
TypedLines(n) ==
    IF n = 0 THEN {<<>>}
    ELSE TypedLines(n - 1) \cup {l \o f : l \in TypedLines(n - 1), f \in Fragments}

InitGate ==
    \E before \in TypedLines(MaxFragments), after \in {<<>>, fr_autoclose} :
        InitWith(<<hdr_dep_serde, ln_path_serde, before \o after>>, fs_app,
                 [line |-> 2, character |-> Len(before)],
                 [p \in {fs_serde} |-> ManifestPublic], NoRegistry, {1})

NextGate == \E r \in {1} : provideCompletionItems(r)

SpecGate == InitGate /\ [][NextGate]_vars

(***************************************************************************)
(* Claims checked under SpecGate.                                          *)
(***************************************************************************)
Done(r) == tasks[r].pc = "done"

\* the index of the leftmost  features\s*=\s*\[  from i on, or -1
RECURSIVE FirstFeaturesKey(_, _)
FirstFeaturesKey(s, i) ==
    IF i > Len(s) THEN -1
    ELSE IF FeaturesKeyAt(s, i) >= 0 THEN i ELSE FirstFeaturesKey(s, i + 1)

\* the complete quoted entries written in the line's features list, which ends
\* at its first "]" or, without one, at the end of the line
WrittenEntries(lineText) ==
    LET i == FirstFeaturesKey(lineText, 0)
        b == FeaturesKeyAt(lineText, i)
    IN  IF i < 0 THEN {}
        ELSE QuotedFrom(substring(lineText, b, SkipNonBracket(lineText, b)), 0)

\* the line  features = ["std", "al
line_std_al == fr_key \o fr_std \o fr_next \o fr_al

\* C1: no suggestion of a completed request is a name already written as a
\* complete quoted entry in the line's features list, closed or not; on the line
\* features = ["std", "al  with std, alloc and full available the suggestions are
\* alloc and full.
C1_NoWrittenEntrySuggested ==
    \A r \in DOMAIN tasks :
        (Done(r) /\ tasks[r].returned = "items") =>
            /\ \A k \in 1..Len(tasks[r].result) :
                   tasks[r].result[k] \notin WrittenEntries(tasks[r].lineText)
            /\ (tasks[r].lineText = line_std_al /\ tasks[r].linePrefix = line_std_al)
                   => tasks[r].result = <<n_alloc, n_full>>

\* every features list that opens in the prefix is closed by "]" in the prefix
EveryListClosed(linePrefix) ==
    /\ \E i \in 0..Len(linePrefix) : FeaturesKeyAt(linePrefix, i) >= 0
    /\ \A i \in 0..Len(linePrefix) :
           FeaturesKeyAt(linePrefix, i) >= 0 =>
               SkipNonBracket(linePrefix, FeaturesKeyAt(linePrefix, i)) < Len(linePrefix)

\* C2 (its second half): a request whose features list is closed by "]" before
\* the cursor finds the Trigger Gate inactive and yields no suggestions.
C2_ClosedListInactive ==
    \A r \in DOMAIN tasks :
        (Done(r) /\ EveryListClosed(tasks[r].linePrefix)) => tasks[r].returned = "undefined"

(***************************************************************************)
(* SpecVersion: requests under [dependencies.serde] with a version         *)
(* constraint (or none), the registry holding a newest-first list of       *)
(* published versions.                                                     *)
(***************************************************************************)
\* how many versions the registry lists at most
MaxVersions == 3

\* 2.0.1
num_201 ==
    <<"2",".","0",".","1">>
\* 1.5.0
num_150 ==
    <<"1",".","5",".","0">>
\* 1.2.3
num_123 ==
    <<"1",".","2",".","3">>
\* 1.2
num_12 ==
    <<"1",".","2">>
\* ^1.2
c_caret_12 ==
    <<"^","1",".","2">>
\* 1.5.0
c_150 ==
    <<"1",".","5",".","0">>
\* 9.9
c_99 ==
    <<"9",".","9">>
\* 1.2
c_12 ==
    <<"1",".","2">>
\* ~1.2.3
c_tilde_123 ==
    <<"~","1",".","2",".","3">>
\*  =1.5.0 
c_eq_150 ==
    <<" ","=","1",".","5",".","0"," ">>
\* ^
c_caret ==
    <<"^">>

Published(num, entries) == [num |-> num, features |-> entries]

v201 == Published(num_201, <<Feature(n_internal, <<>>), Feature(n_std, <<>>),
                             Feature(n_alloc, <<n_std>>)>>)
v150 == Published(num_150, <<Feature(n_std, <<>>), Feature(n_full, <<n_std>>)>>)
v123 == Published(num_123, <<Feature(n_std, <<>>)>>)
v12 == Published(num_12, <<>>)

PublishedVersions == {v201, v150, v123, v12}
Constraints == {undefined, c_caret_12, c_150, c_99, c_12, c_tilde_123, c_eq_150, c_caret}

\* the lists of at most n distinct versions
RECURSIVE VersionLists(_)
VersionLists(n) ==
    IF n = 0 THEN {<<>>}
    ELSE VersionLists(n - 1) \cup
         {Append(l, v) : l \in VersionLists(n - 1),
                         v \in PublishedVersions} 

Distinct(l) == \A i, j \in 1..Len(l) : i # j => l[i] # l[j]

\* version = "<constraint>"
versionLine(c) == version_lit \o <<" ", "=", " ", "\"">> \o c \o <<"\"">>

\* the document of a dependency table with the given constraint
TableDocument(header, c) ==
    IF c = undefined THEN <<header, ln_features_open>>
    ELSE <<header, versionLine(c), ln_features_open>>

Registry(crateName, versions) == [n \in {crateName} |-> [versions |-> versions]]

InitVersion ==
    \E c \in Constraints, l \in VersionLists(MaxVersions) :
        /\ l # <<>>
        /\ Distinct(l)
        /\ InitWith(TableDocument(hdr_dep_serde, c), fs_app,
                    [line |-> Len(TableDocument(hdr_dep_serde, c)) - 1,
                     character |-> Len(ln_features_open)],
                    NoFiles, Registry(n_serde, l), {1})

NextVersion ==
    \/ \E r \in {1} : provideCompletionItems(r)
    \/ \E r \in {1}, outcome \in Outcomes : Respond(r, outcome)

SpecVersion == InitVersion /\ [][NextVersion]_vars

\* the constraint without its operators and the white space around it
BareOf(c) ==
    LET kept == SelectSeq(c, LAMBDA ch : ch \notin {"^", "~", "="})
        inner == {i \in 1..Len(kept) : kept[i] # " "}
    IN  IF inner = {} THEN <<>>
        ELSE SubSeq(kept, CHOOSE i \in inner : \A j \in inner : i <= j,
                          CHOOSE i \in inner : \A j \in inner : i >= j)

HasPrefix(num, p) == Len(p) <= Len(num) /\ \A i \in 1..Len(p) : num[i] = p[i]

\* the version the selection rule names for list l and constraint c
Selected(l, c) ==
    IF c = undefined THEN l[1].num
    ELSE IF \E k \in 1..Len(l) : l[k].num = BareOf(c) THEN BareOf(c)
    ELSE IF \E k \in 1..Len(l) : HasPrefix(l[k].num, BareOf(c))
    THEN l[CHOOSE k \in 1..Len(l) :
               /\ HasPrefix(l[k].num, BareOf(c))
               /\ \A m \in 1..(k - 1) : ~HasPrefix(l[m].num, BareOf(c))].num
    ELSE l[1].num

Fetched(r) == Done(r) /\ tasks[r].cacheOp = "stored"

\* C5: a request that fetched a non-empty version list selected the newest
\* version when it had no constraint, else the version equal to the bare
\* constraint if there is one, else the first listed version that starts with
\* it, else the newest; on 2.0.1, 1.5.0, 1.2.3 the constraint ^1.2 selects 1.2.3,
\* 1.5.0 selects 1.5.0, none and 9.9 select 2.0.1.
C5_VersionSelection ==
    \A r \in DOMAIN tasks :
        Fetched(r) =>
            LET l == registry[n_serde].versions
                c == tasks[r].version
            IN  /\ tasks[r].targetNum = Selected(l, c)
                /\ l = <<v201, v150, v123>> =>
                       /\ c = c_caret_12 => tasks[r].targetNum = num_123
                       /\ c = c_150 => tasks[r].targetNum = num_150
                       /\ c = undefined => tasks[r].targetNum = num_201
                       /\ c = c_99 => tasks[r].targetNum = num_201

\* a request selected the version equal to the bare constraint although a
\* version listed before it starts with the constraint
C5_ExactBehindPrefix ==
    \E r \in DOMAIN tasks :
        /\ Fetched(r)
        /\ tasks[r].version = c_caret_12
        /\ registry[n_serde].versions = <<v201, v123, v12>>
        /\ tasks[r].targetNum = num_12

(***************************************************************************)
(* SpecHeader: requests on a line of the table [dependencies.bar], whose   *)
(* version and path lines lie a number of lines below the header, the      *)
(* cursor line being either the first line of the table or the line after  *)
(* the fields.                                                             *)
(***************************************************************************)
\* how many lines below the header the first field line lies at most
MaxGap == 16

\* /w/bar/Cargo.toml
fs_bar ==
    <<"/","w","/","b","a","r","/","C","a","r","g","o",".","t","o","m","l">>

RECURSIVE Repeat(_, _)
Repeat(line, n) == IF n <= 0 THEN <<>> ELSE <<line>> \o Repeat(line, n - 1)

FieldLines == {<<ln_version_20>>, <<ln_version_20, ln_path_bar>>, <<ln_path_bar>>}

\* the lines of the table: the first field line is the gap-th line below the
\* header; a [features] header may stand right above the fields
HeaderDocument(pre, gap, fields, cursorFirst, sep) ==
    pre \o <<hdr_dep_bar>>
        \o (IF cursorFirst THEN <<ln_features_open>> ELSE <<>>)
        \o Repeat(ln_optional, gap - 1 - (IF cursorFirst THEN 1 ELSE 0)
                                       - (IF sep THEN 1 ELSE 0))
        \o (IF sep THEN <<hdr_features>> ELSE <<>>)
        \o fields
        \o (IF cursorFirst THEN <<>> ELSE <<ln_features_open>>)

InitHeader ==
    \E pre \in {<<>>, <<hdr_package>>}, gap \in 1..MaxGap, fields \in FieldLines,
       cursorFirst \in BOOLEAN, sep \in BOOLEAN :
        /\ gap - 1 - (IF cursorFirst THEN 1 ELSE 0) - (IF sep THEN 1 ELSE 0) >= 0
        /\ InitWith(HeaderDocument(pre, gap, fields, cursorFirst, sep), fs_app,
                    [line |-> Len(pre) + (IF cursorFirst THEN 1 ELSE gap + Len(fields)),
                     character |-> Len(ln_features_open)],
                    [p \in {fs_bar} |-> ManifestPublic], Registry(n_bar, <<v201, v150>>),
                    {1})

NextHeader ==
    \/ \E r \in {1} : provideCompletionItems(r)
    \/ \E r \in {1}, outcome \in Outcomes : Respond(r, outcome)

SpecHeader == InitHeader /\ [][NextHeader]_vars

\* the lines above the cursor that are a header [segment.name]
HeadersAbove == {i \in 0..(position.line - 1) : tableMatch(trim(lineAt(document, i))) # undefined}

\* the nearest of them
NearestHeader == CHOOSE i \in HeadersAbove : \A k \in HeadersAbove : k <= i

\* line j is one of the n lines below the header at line i, with no [...] header
\* line between the two
InWindow(i, j, n) ==
    /\ j \in (i + 1)..(i + n)
    /\ j < lineCount(document)
    /\ \A m \in (i + 1)..(j - 1) : ~startsWith(trim(lineAt(document, m)), <<"[">>)

\* C6: in section-header form the resolver returns the name of the nearest
\* header [segment.name] above the cursor with the version and the path written
\* on a line of their own at any of the 15 lines below that header, no [...]
\* header lying between.
C6_FieldsWithin15Lines ==
    \A r \in DOMAIN tasks :
        (Done(r) /\ inlineMatch(tasks[r].lineText) = undefined /\ HeadersAbove # {}) =>
            \A j \in 0..(lineCount(document) - 1) :
                InWindow(NearestHeader, j, 15) =>
                    LET line == trim(lineAt(document, j))
                        info == tasks[r].crateInfo
                    IN  /\ KeyValueAt(line, 0, version_lit) # undefined =>
                               /\ info.crateName = tableMatch(trim(lineAt(document, NearestHeader)))
                               /\ info.version = KeyValueAt(line, 0, version_lit)
                        /\ KeyValueAt(line, 0, path_lit) # undefined =>
                               /\ info.crateName = tableMatch(trim(lineAt(document, NearestHeader)))
                               /\ info.path = path_resolve(path_dirname(fsPath),
                                                           KeyValueAt(line, 0, path_lit))

(***************************************************************************)
(* SpecInline: two requests on one cursor line, the lines above and below  *)
(* it being edited between them.                                           *)
(***************************************************************************)
\* foo = { version = "1.2", path = "../foo", features = ["
il_full ==
    <<"f","o","o"," ","="," ","{"," ","v","e","r","s","i","o","n"," ","="," ","\"","1",".","2","\"",","," ","p","a","t","h"," ","="," ","\"",".",".","/","f","o","o","\"",","," ","f","e","a","t","u","r","e","s"," ","="," ","[","\"">>
\* foo = { features = ["
il_bare ==
    <<"f","o","o"," ","="," ","{"," ","f","e","a","t","u","r","e","s"," ","="," ","[","\"">>
\* foo={path='../foo',features=['
il_single ==
    <<"f","o","o","=","{","p","a","t","h","=","'",".",".","/","f","o","o","'",",","f","e","a","t","u","r","e","s","=","[","'">>
\* /w/foo/Cargo.toml
fs_foo ==
    <<"/","w","/","f","o","o","/","C","a","r","g","o",".","t","o","m","l">>
\* /w/foo
dir_foo ==
    <<"/","w","/","f","o","o">>
\* /foo
dir_top_foo ==
    <<"/","f","o","o">>
\* foo
n_foo ==
    <<"f","o","o">>
\* 1.2
num_1_2 ==
    <<"1",".","2">>

CursorLines == {il_full, il_bare, il_single, ln_features_open}
LinesAbove == {hdr_dep_bar, ln_path_other}
LinesBelow == {ln_optional, ln_version_99}

InitInline ==
    \E above \in LinesAbove, line \in CursorLines, below \in LinesBelow,
       file \in {fs_app, fs_top} :
        InitWith(<<above, line, below>>, file, [line |-> 1, character |-> Len(line)],
                 [p \in {fs_foo} |-> ManifestPublic],
                 [n \in {n_foo, n_bar} |-> [versions |-> <<v201, v150>>]], {1, 2})

\* the user rewrites the lines around the cursor line
EditOtherLines(above, below) ==
    /\ document # <<above, document[2], below>>
    /\ document' = <<above, document[2], below>>
    /\ UNCHANGED <<fsPath, position, files, registry, featuresCache, tasks>>

NextInline ==
    \/ \E r \in {1, 2} : provideCompletionItems(r)
    \/ \E r \in {1, 2}, outcome \in {"ok", "status"} : Respond(r, outcome)
    \/ \E above \in LinesAbove, below \in LinesBelow : EditOtherLines(above, below)

SpecInline == InitInline /\ [][NextInline]_vars

Resolved(r) == tasks[r].pc # "idle" /\ tasks[r].crateInfo.crateName # undefined

\* C7: two requests on the same inline cursor line of documents that differ in
\* other lines only resolve the same DependencyReference; the line
\* foo = { version = "1.2", path = "../foo", ...  gives foo, 1.2 and ../foo
\* resolved against the document's directory.
C7_InlineIgnoresOtherLines ==
    \A r1, r2 \in DOMAIN tasks :
        (/\ Resolved(r1) /\ Resolved(r2)
         /\ tasks[r1].lineText = tasks[r2].lineText
         /\ inlineMatch(tasks[r1].lineText) # undefined) =>
            /\ tasks[r1].crateInfo = tasks[r2].crateInfo
            /\ tasks[r1].lineText = il_full =>
                   tasks[r1].crateInfo =
                       [crateName |-> n_foo, version |-> num_1_2,
                        path |-> IF fsPath = fs_app THEN dir_foo ELSE dir_top_foo]

\* two requests have resolved the inline line that names neither version nor
\* path, one under a table header followed by a version line, the other between
\* a path line and a version line
C7_TwoDocumentsOneLine ==
    /\ Resolved(1) /\ Resolved(2)
    /\ tasks[1].lineText = il_bare /\ tasks[2].lineText = il_bare
    /\ tasks[1].document = <<hdr_dep_bar, il_bare, ln_version_99>>
    /\ tasks[2].document = <<ln_path_other, il_bare, ln_version_99>>
    /\ tasks[1].crateInfo = [crateName |-> n_foo, version |-> undefined, path |-> undefined]

(***************************************************************************)
(* The specification of the whole provider: the user moves between         *)
(* dependency lines of one manifest and saves a local crate's manifest,    *)
(* while two completion requests run, suspend at the registry request and  *)
(* resume with any outcome of it.                                          *)
(***************************************************************************)
\* serde = { version = "^1.2", features = ["
m_caret ==
    <<"s","e","r","d","e"," ","="," ","{"," ","v","e","r","s","i","o","n"," ","="," ","\"","^","1",".","2","\"",","," ","f","e","a","t","u","r","e","s"," ","="," ","[","\"">>
\* serde = { version = "1.2", features = ["
m_plain ==
    <<"s","e","r","d","e"," ","="," ","{"," ","v","e","r","s","i","o","n"," ","="," ","\"","1",".","2","\"",","," ","f","e","a","t","u","r","e","s"," ","="," ","[","\"">>
\* serde = { features = ["
m_latest ==
    <<"s","e","r","d","e"," ","="," ","{"," ","f","e","a","t","u","r","e","s"," ","="," ","[","\"">>
\* util = { path = "../util", version = "1.0", features = ["
m_local ==
    <<"u","t","i","l"," ","="," ","{"," ","p","a","t","h"," ","="," ","\"",".",".","/","u","t","i","l","\"",","," ","v","e","r","s","i","o","n"," ","="," ","\"","1",".","0","\"",","," ","f","e","a","t","u","r","e","s"," ","="," ","[","\"">>
\* gone = { path = "../gone", features = ["
m_gone ==
    <<"g","o","n","e"," ","="," ","{"," ","p","a","t","h"," ","="," ","\"",".",".","/","g","o","n","e","\"",","," ","f","e","a","t","u","r","e","s"," ","="," ","[","\"">>
\* serde@^1.2
key_caret ==
    <<"s","e","r","d","e","@","^","1",".","2">>
\* serde@1.2
key_plain ==
    <<"s","e","r","d","e","@","1",".","2">>
\* serde@latest
key_latest ==
    <<"s","e","r","d","e","@","l","a","t","e","s","t">>
\* /w/util
dir_util ==
    <<"/","w","/","u","t","i","l">>
\* /w/gone
dir_gone ==
    <<"/","w","/","g","o","n","e">>

DependencyLines == {m_caret, m_plain, m_latest, m_local, m_gone}
Manifests == {ManifestPrivate, ManifestEdited}

CursorAtEnd(line) == [line |-> 0, character |-> Len(line)]

Init ==
    InitWith(<<m_caret>>, fs_app, CursorAtEnd(m_caret),
             [p \in {fs_util} |-> ManifestPrivate],
             Registry(n_serde, <<v201, v123>>), {1, 2})

\* the user puts the cursor after the opening quote of another dependency line
Edit(line) ==
    /\ document # <<line>>
    /\ document' = <<line>>
    /\ position' = CursorAtEnd(line)
    /\ UNCHANGED <<fsPath, files, registry, featuresCache, tasks>>

\* the manifest of the local crate is saved with another content
WriteManifest(file) ==
    /\ files[fs_util] # file
    /\ files' = [files EXCEPT ![fs_util] = file]
    /\ UNCHANGED <<editor, registry, featuresCache, tasks>>

Next ==
    \/ \E r \in {1, 2} : provideCompletionItems(r)
    \/ \E r \in {1, 2}, outcome \in {"ok", "status"} : Respond(r, outcome)
    \/ \E line \in DependencyLines : Edit(line)
    \/ \E file \in Manifests : WriteManifest(file)

Spec == Init /\ [][Next]_vars

\* task r takes up a new request in this step and resolves its dependency
\* through the Remote Feature Source
StartsRemote(r) ==
    /\ tasks[r].pc # "awaiting"
    /\ tasks'[r] # tasks[r]
    /\ tasks'[r].key # undefined

\* task r takes up a new request in this step for a dependency with a path
StartsLocal(r) ==
    /\ tasks[r].pc # "awaiting"
    /\ tasks'[r] # tasks[r]
    /\ tasks'[r].crateInfo.path # undefined

\* C3: a resolution of a name+version that starts after another resolution of
\* the same name+version has returned is served from the FeatureCache: it
\* issues no network call, so that the two issue one call in total, and it
\* returns the list the first one returned.
C3_SecondServedFromCache ==
    [][\A r, q \in DOMAIN tasks :
          (/\ r # q
           /\ StartsRemote(r)
           /\ Done(q)
           /\ tasks[q].key = tasks'[r].key) =>
              /\ tasks'[r].cacheOp = "hit"
              /\ tasks'[r].calls = 0
              /\ tasks[q].calls + tasks'[r].calls = 1
              /\ tasks'[r].features = tasks[q].features]_vars

\* C3, for a first resolution that stored its list (its response was
\* successful and held at least one version): a resolution of the same
\* name+version that starts after it has returned runs to its end without a
\* network call and without writing the FeatureCache, and returns the list the
\* first one returned.
C3_SecondServedAfterSuccess ==
    [][\A r, q \in DOMAIN tasks :
          (/\ r # q
           /\ StartsRemote(r)
           /\ Done(q)
           /\ tasks[q].key = tasks'[r].key
           /\ tasks[q].cacheOp = "stored") =>
              /\ tasks'[r].pc = "done"
              /\ tasks'[r].cacheOp = "hit"
              /\ tasks'[r].calls = 0
              /\ tasks[q].calls + tasks'[r].calls = 1
              /\ tasks'[r].features = tasks[q].features
              /\ tasks'[r].features # <<>>
              /\ featuresCache' = featuresCache]_vars

\* one request fetched serde@^1.2 with one network call and stored the list,
\* the other was then served the same list from the cache without a call
C3_FetchedThenHit ==
    /\ Done(1) /\ Done(2)
    /\ tasks[1].key = key_caret /\ tasks[2].key = key_caret
    /\ tasks[1].cacheOp = "stored" /\ tasks[1].calls = 1
    /\ tasks[2].cacheOp = "hit" /\ tasks[2].calls = 0
    /\ tasks[2].features = tasks[1].features
    /\ labels(tasks[2].features) = <<n_std>>

\* C4: no suggestion of a completed request has a name that begins with an
\* underscore, whatever source its features came from.
C4_NoPrivateSuggested ==
    \A r \in DOMAIN tasks :
        Done(r) => \A i \in 1..Len(tasks[r].result) : Head(tasks[r].result[i]) # "_"

\* the failures of a request to the registry
Failures == Outcomes \ {"ok"}

\* C8: a remote resolution whose request met a failure has returned the empty
\* list without raising, and the completion request answered with no items,
\* after exactly one network request.
C8_FailureReturnsEmpty ==
    \A r \in DOMAIN tasks :
        (Done(r) /\ tasks[r].outcome \in Failures) =>
            /\ ~tasks[r].raised
            /\ tasks[r].features = <<>>
            /\ tasks[r].returned = "items"
            /\ tasks[r].result = <<>>
            /\ tasks[r].calls = 1

\* a request for serde with a constraint has ended after its one network
\* request ran into the timeout
C8_TimedOut ==
    /\ Done(1)
    /\ tasks[1].outcome = "timeout"
    /\ tasks[1].crateInfo.crateName = n_serde
    /\ tasks[1].version = c_caret_12
    /\ tasks[1].calls = 1
    /\ tasks[1].returned = "items"
    /\ tasks[1].result = <<>>

\* what the manifest of a local crate declares, by its directory and the
\* content of the one manifest on disk
DeclaredAt(dir) ==
    IF dir # dir_util THEN <<>>
    ELSE IF files[fs_util] = ManifestPrivate THEN <<n_std, n_internal, n_alloc>>
    ELSE <<n_std, n_rc>>

\* C9: a request whose DependencyReference carries a path runs to its end in
\* one step that issues no network request and leaves the FeatureCache as it
\* is, without a lookup in it, and its features are those of the manifest as
\* it is on disk at that moment: the names it declares, none for a missing
\* manifest, whether or not a version is given as well.
C9_PathResolvesLocally ==
    [][\A r \in DOMAIN tasks :
          StartsLocal(r) =>
              /\ tasks'[r].pc = "done"
              /\ tasks'[r].calls = 0
              /\ tasks'[r].cacheOp = "none"
              /\ tasks'[r].key = undefined
              /\ tasks'[r].reads = 1
              /\ featuresCache' = featuresCache
              /\ labels(tasks'[r].features) = DeclaredAt(tasks'[r].crateInfo.path)
              /\ tasks'[r].crateInfo.path \in {dir_util, dir_gone}]_vars

\* with a list of serde in the cache, one request has resolved util, which
\* has a path and a version, from the manifest as saved the second time, and
\* the other has resolved the crate whose manifest is missing
C9_LocalBesideCache ==
    /\ key_caret \in DOMAIN featuresCache
    /\ files[fs_util] = ManifestEdited
    /\ Done(1) /\ Done(2)
    /\ tasks[1].lineText = m_local
    /\ tasks[1].crateInfo.version # undefined
    /\ tasks[1].crateInfo.path = dir_util
    /\ labels(tasks[1].features) = <<n_std, n_rc>>
    /\ tasks[1].calls = 0
    /\ tasks[2].crateInfo.path = dir_gone
    /\ tasks[2].features = <<>>
    /\ tasks[2].calls = 0

\* the version of a constraint, or latest without one
Normalized(version) == IF version = undefined THEN latest_lit ELSE versionNum(version)

\* C10: a remote resolution that starts after a resolution of the same name
\* whose constraint has the same normalized version has stored its list is a
\* cache hit that issues no network request; so 1.2 after ^1.2.
C10_NormalizedKeyHit ==
    [][\A r, q \in DOMAIN tasks :
          (/\ r # q
           /\ StartsRemote(r)
           /\ Done(q)
           /\ tasks[q].cacheOp = "stored"
           /\ tasks[q].crateInfo.crateName = tasks'[r].crateInfo.crateName
           /\ Normalized(tasks[q].version) = Normalized(tasks'[r].version)) =>
              /\ tasks'[r].cacheOp = "hit"
              /\ tasks'[r].calls = 0]_vars

\* C10, with the key taken from the constraint as it is written: the key of a
\* remote resolution is the name, an @ and the constraint with its operators,
\* or latest without a constraint; a resolution is a cache hit without a
\* network request exactly when the cache holds that key, and a miss with one
\* network request otherwise, also when the cache holds the key of the same
\* version written with another operator.
C10_KeyAsWritten ==
    [][\A r \in DOMAIN tasks :
          StartsRemote(r) =>
              /\ tasks'[r].lineText = m_caret => tasks'[r].key = key_caret
              /\ tasks'[r].lineText = m_plain => tasks'[r].key = key_plain
              /\ tasks'[r].lineText = m_latest => tasks'[r].key = key_latest
              /\ tasks'[r].lineText \in {m_caret, m_plain, m_latest}
              /\ IF tasks'[r].key \in DOMAIN featuresCache
                 THEN tasks'[r].cacheOp = "hit" /\ tasks'[r].calls = 0
                 ELSE tasks'[r].cacheOp = "miss" /\ tasks'[r].calls = 1]_vars

\* after serde with ^1.2 has been resolved and stored, a request for serde
\* with 1.2 has missed the cache and awaits its own network request, and the
\* other request was served ^1.2 from the cache
C10_PlainMissesAfterCaret ==
    /\ DOMAIN featuresCache = {key_caret}
    /\ tasks[1].pc = "awaiting"
    /\ tasks[1].key = key_plain
    /\ tasks[1].cacheOp = "miss"
    /\ tasks[1].calls = 1
    /\ Done(2)
    /\ tasks[2].key = key_caret
    /\ tasks[2].cacheOp = "hit"
    /\ tasks[2].calls = 0

(***************************************************************************)
(* SpecTable: requests on the line  features = ["  put anywhere into a     *)
(* sequence of up to MaxLines lines taken from headers of dependency       *)
(* tables and of other tables, path lines, version lines and other fields; *)
(* the cursor stands after the quote or before it.                         *)
(***************************************************************************)
\* how many lines the document has besides the cursor line, at most
MaxLines == 3

\* [profile.release]
hdr_profile ==
    <<"[","p","r","o","f","i","l","e",".","r","e","l","e","a","s","e","]">>
\* release
n_release ==
    <<"r","e","l","e","a","s","e">>
\* 9.9
num_9_9 ==
    <<"9",".","9">>

TableLines == {hdr_dep_bar, hdr_package, hdr_profile, ln_path_bar, ln_version_20,
               ln_version_99, ln_optional}

\* the sequences of at most n of these lines
RECURSIVE LinesUpTo(_)
LinesUpTo(n) ==
    IF n = 0 THEN {<<>>}
    ELSE LinesUpTo(n - 1) \cup {Append(l, x) : l \in LinesUpTo(n - 1), x \in TableLines}

\* the lines l with the cursor line put in after the first k of them
CursorLineAt(l, k) == SubSeq(l, 1, k) \o <<ln_features_open>> \o SubSeq(l, k + 1, Len(l))

\* the cursor stands after the quote of the cursor line or before it
InitTable ==
    \E l \in LinesUpTo(MaxLines) : \E k \in 0..Len(l), back \in {0, 1} :
        InitWith(CursorLineAt(l, k), fs_app,
                 [line |-> k, character |-> Len(ln_features_open) - back],
                 [p \in {fs_bar} |-> ManifestPublic],
                 [n \in {n_bar, n_release} |-> [versions |-> <<v201, v150>>]], {1})

NextTable ==
    \/ \E r \in {1} : provideCompletionItems(r)
    \/ \E r \in {1}, outcome \in {"ok", "status"} : Respond(r, outcome)

SpecTable == InitTable /\ [][NextTable]_vars

\* the lines above the cursor that start a [...] header
BracketsAbove == {i \in 0..(position.line - 1) : startsWith(trim(lineAt(document, i)), <<"[">>)}

\* the nearest of them
NearestBracket == CHOOSE i \in BracketsAbove : \A k \in BracketsAbove : k <= i

\* C11: in section-header form, when the nearest [...] header above the cursor
\* is a line without the substring dependencies, the resolver returns none:
\* the request ends with no dependency name and no suggestions.
C11_OtherTableGivesNone ==
    \A r \in DOMAIN tasks :
        (/\ Done(r)
         /\ inlineMatch(tasks[r].lineText) = undefined
         /\ BracketsAbove # {}
         /\ ~includes(trim(lineAt(document, NearestBracket)), dependencies_lit)) =>
            /\ tasks[r].crateInfo.crateName = undefined
            /\ tasks[r].returned = "undefined"

\* the request of task r has resolved a dependency from a header above the
\* cursor: that header is the nearest line  [segment.name]  above
FromHeader(r) ==
    /\ Done(r)
    /\ inlineMatch(tasks[r].lineText) = undefined
    /\ tasks[r].crateInfo.crateName # undefined

\* the lines below the resolved header and above the next [...] header that
\* are a line  key = "value"  of their own
FieldsBelowHeader(key) ==
    {j \in 0..(lineCount(document) - 1) :
        /\ InWindow(NearestHeader, j, lineCount(document))
        /\ ~startsWith(trim(lineAt(document, j)), <<"[">>)
        /\ KeyValueAt(trim(lineAt(document, j)), 0, key) # undefined}

ValueAtLine(j, key) == KeyValueAt(trim(lineAt(document, j)), 0, key)

FirstOf(S) == CHOOSE j \in S : \A k \in S : j <= k
LastOf(S) == CHOOSE j \in S : \A k \in S : k <= j

\* C12: of several path lines or several version lines between the header and
\* the next header, the DependencyReference carries the first path and the
\* first version.
C12_FirstFieldWins ==
    \A r \in DOMAIN tasks :
        FromHeader(r) =>
            /\ FieldsBelowHeader(version_lit) # {} =>
                   tasks[r].crateInfo.version =
                       ValueAtLine(FirstOf(FieldsBelowHeader(version_lit)), version_lit)
            /\ FieldsBelowHeader(path_lit) # {} =>
                   tasks[r].crateInfo.path =
                       path_resolve(path_dirname(fsPath),
                                    ValueAtLine(FirstOf(FieldsBelowHeader(path_lit)), path_lit))

\* C12, with the last in place of the first: the DependencyReference carries
\* the last path and the last version written between the header and the next
\* header, and none where no such line is.
C12_LastFieldWins ==
    \A r \in DOMAIN tasks :
        FromHeader(r) =>
            /\ tasks[r].crateInfo.version =
                   IF FieldsBelowHeader(version_lit) = {} THEN undefined
                   ELSE ValueAtLine(LastOf(FieldsBelowHeader(version_lit)), version_lit)
            /\ tasks[r].crateInfo.path =
                   IF FieldsBelowHeader(path_lit) = {} THEN undefined
                   ELSE path_resolve(path_dirname(fsPath),
                                     ValueAtLine(LastOf(FieldsBelowHeader(path_lit)), path_lit))

\* a request under [dependencies.bar] followed by version = "2.0" and then
\* version = "9.9" has resolved bar with version 9.9
C12_TwoVersions ==
    /\ document = <<hdr_dep_bar, ln_version_20, ln_version_99, ln_features_open>>
    /\ FromHeader(1)
    /\ tasks[1].crateInfo = [crateName |-> n_bar, path |-> undefined, version |-> num_9_9]

\* C13: the path and the version of the DependencyReference are each the
\* value of a line that lies below the header and above the next line that
\* starts a [...] header.
C13_NoFieldPastNextHeader ==
    \A r \in DOMAIN tasks :
        FromHeader(r) =>
            /\ tasks[r].crateInfo.version # undefined =>
                   \E j \in FieldsBelowHeader(version_lit) :
                       tasks[r].crateInfo.version = ValueAtLine(j, version_lit)
            /\ tasks[r].crateInfo.path # undefined =>
                   \E j \in FieldsBelowHeader(path_lit) :
                       tasks[r].crateInfo.path =
                           path_resolve(path_dirname(fsPath), ValueAtLine(j, path_lit))

\* a request on the line below [dependencies.bar], with the header [package]
\* and then version = "9.9" below the cursor line, has resolved bar with no
\* version and no path
C13_VersionInNextTable ==
    /\ document = <<hdr_dep_bar, ln_features_open, hdr_package, ln_version_99>>
    /\ position.line = 1
    /\ FromHeader(1)
    /\ tasks[1].crateInfo = [crateName |-> n_bar, path |-> undefined, version |-> undefined]

\* the list a request for serde stores under a key: 1.2 and ^1.2 select
\* 1.2.3, which declares std; no constraint selects 2.0.1, which declares
\* _internal, std and alloc
StoredFor(key) ==
    IF key = key_latest
    THEN <<Feature(n_alloc, <<n_std>>), Feature(n_std, <<>>)>>
    ELSE <<Feature(n_std, <<>>)>>

\* C14: whatever the interleaving of the two requests, each issues at most one
\* network call; the cache changes only in the step in which a request
\* receives its own response, and then only at that request's key, which gets
\* the list the request returns; two requests that both fetched the same key
\* leave under it the list a single request stores; and a request that starts
\* with its key in the cache is a hit that returns the cached list.
C14_RaceIsBenign ==
    [][/\ \A r \in DOMAIN tasks : tasks'[r].calls <= 1
       /\ featuresCache' # featuresCache =>
              \E r \in DOMAIN tasks :
                  /\ tasks[r].pc = "awaiting"
                  /\ tasks'[r].pc = "done"
                  /\ tasks'[r].outcome = "ok"
                  /\ DOMAIN featuresCache' = DOMAIN featuresCache \cup {tasks[r].key}
                  /\ featuresCache'[tasks[r].key] = tasks'[r].features
                  /\ \A k \in DOMAIN featuresCache \ {tasks[r].key} :
                         featuresCache'[k] = featuresCache[k]
       /\ \A r, q \in DOMAIN tasks :
              (/\ r # q
               /\ tasks'[r].pc = "done" /\ tasks'[q].pc = "done"
               /\ tasks'[r].cacheOp = "stored" /\ tasks'[q].cacheOp = "stored"
               /\ tasks'[r].key = tasks'[q].key) =>
                  /\ tasks'[r].key \in DOMAIN featuresCache'
                  /\ featuresCache'[tasks'[r].key] = StoredFor(tasks'[r].key)
                  /\ tasks'[r].features = StoredFor(tasks'[r].key)
                  /\ tasks'[q].features = StoredFor(tasks'[r].key)
       /\ \A r \in DOMAIN tasks :
              (StartsRemote(r) /\ tasks'[r].key \in DOMAIN featuresCache) =>
                  /\ tasks'[r].pc = "done"
                  /\ tasks'[r].cacheOp = "hit"
                  /\ tasks'[r].features = featuresCache[tasks'[r].key]
                  /\ tasks'[r].features = StoredFor(tasks'[r].key)]_vars

\* both requests missed the cache for serde@^1.2, each issued one call, and
\* both have stored the list of 1.2.3 under the key
C14_BothFetched ==
    /\ Done(1) /\ Done(2)
    /\ tasks[1].key = key_caret /\ tasks[2].key = key_caret
    /\ tasks[1].cacheOp = "stored" /\ tasks[2].cacheOp = "stored"
    /\ tasks[1].calls = 1 /\ tasks[2].calls = 1
    /\ featuresCache[key_caret] = <<Feature(n_std, <<>>)>>

\* C15: a request whose line prefix ends before the quote (the Trigger Gate
\* is inactive), or for whose cursor the resolver returns none, has ended
\* with no suggestions and no error, without a read of a manifest, a network
\* request or a lookup in the cache, and the cache is empty as before; a
\* request that did read a manifest, look into the cache or call the registry
\* has an active gate and a resolved dependency.
C15_NothingPastClosedStage ==
    \A r \in DOMAIN tasks :
        /\ (/\ Done(r)
            /\ \/ tasks[r].linePrefix = fr_key
               \/ getCrateInfo(tasks[r].document, fsPath, position).crateName = undefined) =>
               /\ tasks[r].returned = "undefined"
               /\ tasks[r].result = <<>>
               /\ ~tasks[r].raised
               /\ tasks[r].reads = 0
               /\ tasks[r].calls = 0
               /\ tasks[r].cacheOp = "none"
               /\ featuresCache = NoCache
        /\ (tasks[r].reads > 0 \/ tasks[r].calls > 0 \/ tasks[r].cacheOp # "none") =>
               /\ tasks[r].linePrefix = ln_features_open
               /\ tasks[r].crateInfo.crateName # undefined
               /\ tasks[r].crateInfo =
                      getCrateInfo(tasks[r].document, fsPath, position)

\* a request with the cursor after the quote, under the header [package] and
\* a path line, has ended with no suggestions and no read of a manifest
C15_NoDependencyAbove ==
    /\ document = <<hdr_package, ln_path_bar, ln_features_open>>
    /\ position.character = Len(ln_features_open)
    /\ Done(1)
    /\ tasks[1].returned = "undefined"
    /\ tasks[1].reads = 0

(***************************************************************************)
(* SpecManifest: requests for the local crate util, whose manifest is any  *)
(* sequence of up to MaxManifestLines lines taken from section headers,    *)
(* feature declarations and a comment.                                     *)
(***************************************************************************)
\* how many lines the manifest has at most
MaxManifestLines == 4

\* [features] with blanks around it
hdr_features_indented ==
    <<" "," ","[","f","e","a","t","u","r","e","s","]"," ">>
\* # std = []
mf_comment ==
    <<"#"," ","s","t","d"," ","="," ","[","]">>

ManifestLines == {hdr_features, hdr_features_indented, hdr_package, mf_std, mf_alloc,
                  mf_comment}

\* the sequences of at most n of these lines
RECURSIVE ManifestsUpTo(_)
ManifestsUpTo(n) ==
    IF n = 0 THEN {<<>>}
    ELSE ManifestsUpTo(n - 1) \cup
         {Append(l, x) : l \in ManifestsUpTo(n - 1), x \in ManifestLines}

InitManifest ==
    \E lines \in ManifestsUpTo(MaxManifestLines) :
        InitWith(<<m_local>>, fs_app, CursorAtEnd(m_local),
                 [p \in {fs_util} |-> File(lines)], NoRegistry, {1})

NextManifest == \E r \in {1} : provideCompletionItems(r)

SpecManifest == InitManifest /\ [][NextManifest]_vars

\* the lines of the manifest on disk
ManifestOnDisk == split(files[fs_util].content, "\n")

\* a line that is a [...] header, and one that is [features], blanks aside
IsHeaderLine(line) == line \in {hdr_features, hdr_features_indented, hdr_package}
IsFeaturesLine(line) == line \in {hdr_features, hdr_features_indented}

\* line i of the manifest is a declaration inside a features section: the
\* nearest header above it is a [features] line
Declares(lines, i) ==
    /\ lines[i] \in {mf_std, mf_alloc}
    /\ \E h \in 1..(i - 1) :
           /\ IsFeaturesLine(lines[h])
           /\ \A m \in (h + 1)..(i - 1) : ~IsHeaderLine(lines[m])

\* the FeatureInfo of a declaration line
Declared(line) ==
    IF line = mf_std THEN Feature(n_std, <<>>) ELSE Feature(n_alloc, <<n_std>>)

\* the declarations of lines i.. of the manifest, in file order
RECURSIVE DeclarationsFrom(_, _)
DeclarationsFrom(lines, i) ==
    IF i > Len(lines) THEN <<>>
    ELSE (IF Declares(lines, i) THEN <<Declared(lines[i])>> ELSE <<>>)
         \o DeclarationsFrom(lines, i + 1)

\* C16: the Local Feature Source returns, in file order, one FeatureInfo for
\* each declaration line whose nearest [...] header above is a line that is
\* [features] (blanks around it aside), and nothing else: none for a
\* declaration before the first [features] line or below a header that ended
\* the section, and again one below a later [features] line.
C16_OnePerDeclarationInSection ==
    \A r \in DOMAIN tasks :
        Done(r) =>
            /\ tasks[r].reads = 1
            /\ tasks[r].features = DeclarationsFrom(ManifestOnDisk, 1)

\* the manifest  [features], std = [], [package], alloc = ["std"]  has given
\* std alone
C16_SectionEnded ==
    /\ ManifestOnDisk = <<hdr_features, mf_std, hdr_package, mf_alloc>>
    /\ Done(1)
    /\ tasks[1].features = <<Feature(n_std, <<>>)>>

\* C17: the step in which a remote resolution ends in a failure or with an
\* empty version list leaves the FeatureCache as it is, without its key; the
\* next resolution of that key misses the cache and issues a new network
\* request; and the cache changes only by the list made from a response that
\* holds at least one version.
C17_FailureNotCached ==
    [][\A r \in DOMAIN tasks :
          /\ (/\ tasks[r].pc = "awaiting"
              /\ tasks'[r].pc = "done"
              /\ tasks'[r].outcome \in Failures) =>
                 /\ featuresCache' = featuresCache
                 /\ tasks[r].key \notin DOMAIN featuresCache'
          /\ (/\ Done(r)
              /\ tasks[r].outcome \in Failures
              /\ tasks'[r] # tasks[r]) =>
                 /\ tasks'[r].key = tasks[r].key
                 /\ tasks'[r].pc = "awaiting"
                 /\ tasks'[r].cacheOp = "miss"
                 /\ tasks'[r].calls = 1
          /\ featuresCache' # featuresCache =>
                 /\ tasks'[r].outcome = "ok"
                 /\ registry[n_serde].versions # <<>>
                 /\ tasks'[r].targetNum \in
                        {registry[n_serde].versions[i].num :
                             i \in 1..Len(registry[n_serde].versions)}
                 /\ featuresCache' =
                        [k \in {tasks[r].key} |-> tasks'[r].features]]_vars

\* a resolution of serde with ^1.2 got a response with an empty version list
\* and has ended with the cache still empty
C17_EmptyVersionsNotStored ==
    /\ Done(1)
    /\ tasks[1].outcome = "emptyversions"
    /\ tasks[1].key = key_caret
    /\ tasks[1].features = <<>>
    /\ featuresCache = NoCache

\* the positions of the "]" of a line behind its first  features = [
ClosingAfterKey(lineText) ==
    {j \in 1..Len(lineText) :
        /\ FirstFeaturesKey(lineText, 0) >= 0
        /\ j > FeaturesKeyAt(lineText, FirstFeaturesKey(lineText, 0))
        /\ lineText[j] = "]"}

\* the text between that "[" and the first "]" behind it
ListContent(lineText) ==
    SubSeq(lineText, FeaturesKeyAt(lineText, FirstFeaturesKey(lineText, 0)) + 1,
           (CHOOSE j \in ClosingAfterKey(lineText) :
                \A k \in ClosingAfterKey(lineText) : j <= k) - 1)

\* the positions of the quotes of a text, in ascending order
RECURSIVE QuotePositions(_, _)
QuotePositions(content, i) ==
    IF i > Len(content) THEN <<>>
    ELSE (IF IsQuote(content[i]) THEN <<i>> ELSE <<>>) \o QuotePositions(content, i + 1)

\* what stands between an opening quote and the next quote, where that is
\* not empty; the quote of an empty pair opens nothing
RECURSIVE BetweenQuotes(_, _)
BetweenQuotes(content, qs) ==
    IF Len(qs) < 2 THEN {}
    ELSE IF qs[2] = qs[1] + 1 THEN BetweenQuotes(content, Tail(qs))
    ELSE {SubSeq(content, qs[1] + 1, qs[2] - 1)}
         \cup BetweenQuotes(content, Tail(Tail(qs)))

\* C18: for a line whose features list has no "]" behind its "[" the
\* Existing-Features Extractor returns the empty set, and no suggestion is
\* held back; for a line with one it returns exactly the non-empty texts
\* between quotes that stand between the "[" and the first "]", and the
\* suggestions are the available features that are not among them.
C18_ExtractorNeedsClosingBracket ==
    \A r \in DOMAIN tasks :
        (Done(r) /\ FirstFeaturesKey(tasks[r].lineText, 0) >= 0) =>
            LET existing == getExistingFeatures(tasks[r].lineText)
                content == ListContent(tasks[r].lineText)
            IN  /\ IF ClosingAfterKey(tasks[r].lineText) = {}
                   THEN existing = {}
                   ELSE existing = BetweenQuotes(content, QuotePositions(content, 1))
                /\ tasks[r].returned = "items" =>
                       tasks[r].result =
                           SelectSeq(<<n_std, n_alloc, n_full>>,
                                     LAMBDA x : x \notin existing)

\* on the line  features = ["std", ""]  with the cursor between the last two
\* quotes the extractor gives std, and the request suggests alloc and full
C18_ClosedListRead ==
    /\ Done(1)
    /\ tasks[1].lineText = fr_key \o fr_std \o fr_next \o fr_autoclose
    /\ getExistingFeatures(tasks[1].lineText) = {n_std}
    /\ tasks[1].result = <<n_alloc, n_full>>

(***************************************************************************)
(* SpecLive: two requests on a few documents of both forms, the user       *)
(* opening another document at any time.  The request to the registry is   *)
(* made with AbortSignal.timeout(5000) (line 177): a request that is       *)
(* awaited and does not settle otherwise is ended by that timer.  This is  *)
(* the weak fairness of each task's Respond with the outcome timeout.      *)
(***************************************************************************)
LiveDocuments == {<<m_caret>>, <<m_local>>, <<hdr_dep_serde, ln_features_open>>,
                  <<hdr_package, ln_path_bar, ln_features_open>>}

\* the cursor at the end of the last line
CursorAtLast(doc) == [line |-> Len(doc) - 1, character |-> Len(doc[Len(doc)])]

InitLive ==
    InitWith(<<m_caret>>, fs_app, CursorAtLast(<<m_caret>>),
             [p \in {fs_util} |-> ManifestPrivate],
             Registry(n_serde, <<v201, v123>>), {1, 2})

\* the user opens another document
Open(doc) ==
    /\ document # doc
    /\ document' = doc
    /\ position' = CursorAtLast(doc)
    /\ UNCHANGED <<fsPath, files, registry, featuresCache, tasks>>

LiveOutcomes == {"ok", "status", "timeout"}

NextLive ==
    \/ \E r \in {1, 2} : provideCompletionItems(r)
    \/ \E r \in {1, 2}, outcome \in LiveOutcomes : Respond(r, outcome)
    \/ \E doc \in LiveDocuments : Open(doc)

SpecLive ==
    /\ InitLive
    /\ [][NextLive]_vars
    /\ \A r \in {1, 2} : WF_vars(Respond(r, "timeout"))

\* C19: a request is never left between its stages but at the registry
\* request, and a request that awaits the registry eventually ends with a
\* suggestion list, whatever the other request does; a request that has ended
\* has returned a suggestion list or no suggestions and raised nothing.
C19_RequestsComplete ==
    /\ [](\A r \in DOMAIN tasks :
             /\ tasks[r].pc \in {"idle", "awaiting", "done"}
             /\ tasks[r].pc = "awaiting" => tasks[r].calls = 1
             /\ Done(r) => (tasks[r].returned \in {"items", "undefined"} /\ ~tasks[r].raised))
    /\ \A r \in {1, 2} :
           (tasks[r].pc = "awaiting") ~> (Done(r) /\ tasks[r].returned = "items")

\* the first request has ended by its timeout while the second, begun before
\* it ended, still awaits its own response
C19_TimedOutBesideAwaiting ==
    /\ Done(1)
    /\ tasks[1].outcome = "timeout"
    /\ tasks[1].returned = "items"
    /\ tasks[2].pc = "awaiting"
    /\ tasks[2].key = tasks[1].key

=============================================================================
